---- MODULE Spec2Model ----
(***************************************************************************)
(* SteamAPIController (src/unnamed/part_000, and its older revision        *)
(* src/src/index.ts): a client of the Steam web API.  Strings are          *)
(* sequences of one-character strings, so that the regular expressions     *)
(* and the replace calls of resolveURL and the grammars accepted by the    *)
(* SteamID constructor act on the characters, as in the program.           *)
(***************************************************************************)
EXTENDS Integers, Sequences, FiniteSets, TLC

(***************************************************************************)
(* Characters and string helpers.                                          *)
(***************************************************************************)
DigitChars == <<"0", "1", "2", "3", "4", "5", "6", "7", "8", "9">>

IsDigit(c) == \E k \in 1..10 : DigitChars[k] = c

DigitVal(c) == (CHOOSE k \in 1..10 : DigitChars[k] = c) - 1

Letters ==
  {"a","b","c","d","e","f","g","h","i","j","k","l","m","n","o","p","q","r",
   "s","t","u","v","w","x","y","z","A","B","C","D","E","F","G","H","I","J",
   "K","L","M","N","O","P","Q","R","S","T","U","V","W","X","Y","Z"}

AllDigits(s) == Len(s) > 0 /\ \A k \in 1..Len(s) : IsDigit(s[k])

\* s.substring(from - 1, to) of JavaScript, with 1-based inclusive bounds.
Sub(s, from, to) == IF from > to THEN <<>> ELSE SubSeq(s, from, to)

\* Whether pattern p occurs in s starting at index i.
IsPrefixAt(s, i, p) ==
  /\ i >= 1
  /\ i + Len(p) - 1 <= Len(s)
  /\ \A k \in 1..Len(p) : s[i + k - 1] = p[k]

\* Positions of character c in s.
PositionsOf(s, c) == {k \in 1..Len(s) : s[k] = c}

Min(S) == CHOOSE x \in S : \A y \in S : x <= y

(***************************************************************************)
(* resolveURL: the two regular expressions and the three replace calls.    *)
(***************************************************************************)
HttpWord == <<"h", "t", "t", "p">>

HostPart ==
  <<":", "/", "/", "s", "t", "e", "a", "m", "c", "o", "m", "m", "u", "n",
    "i", "t", "y", ".", "c", "o", "m", "/">>

\* /http[s]{0,1}:\/\/steamcommunity\.com\/profiles\// : what follows "http"
\* and the optional "s".
profilesRegex == HostPart \o <<"p", "r", "o", "f", "i", "l", "e", "s", "/">>

\* /http[s]{0,1}:\/\/steamcommunity\.com\/id\//
customRegex == HostPart \o <<"i", "d", "/">>

\* Length of the match of http[s]{0,1}<tail> at index i of s, 0 when none.
RegexMatchLen(s, i, tail) ==
  IF IsPrefixAt(s, i, HttpWord \o <<"s">> \o tail) THEN 5 + Len(tail)
  ELSE IF IsPrefixAt(s, i, HttpWord \o tail) THEN 4 + Len(tail)
  ELSE 0

RegexMatches(s, tail) == {i \in 1..Len(s) : RegexMatchLen(s, i, tail) > 0}

\* url.match(regex): truthy when the (unanchored) regex matches somewhere.
Match(s, tail) == RegexMatches(s, tail) # {}

\* url.replace(regex, ''): the regex has no g flag, the leftmost match goes.
ReplaceRegex(s, tail) ==
  IF ~Match(s, tail) THEN s
  ELSE LET i == Min(RegexMatches(s, tail))
           n == RegexMatchLen(s, i, tail)
       IN  Sub(s, 1, i - 1) \o Sub(s, i + n, Len(s))

\* url.replace('/', ''): a string pattern, the first occurrence goes.
ReplaceFirstSlash(s) ==
  IF PositionsOf(s, "/") = {} THEN s
  ELSE LET i == Min(PositionsOf(s, "/"))
       IN  Sub(s, 1, i - 1) \o Sub(s, i + 1, Len(s))

\* resolveURL without its last replace: the slash after the name stays.
resolveURL_KeepsSlash(url) ==
  IF Match(url, profilesRegex) \/ Match(url, customRegex)
    THEN ReplaceRegex(ReplaceRegex(url, profilesRegex), customRegex)
    ELSE url

resolveURL(url) ==
  IF Match(url, profilesRegex) \/ Match(url, customRegex)
    THEN ReplaceFirstSlash(ReplaceRegex(ReplaceRegex(url, profilesRegex),
                                        customRegex))
    ELSE url

(***************************************************************************)
(* The SteamID class of the steamid package (import at part_000 line 2).   *)
(* A SteamID is universe, type, instance and accountid; its 64-bit form is *)
(* universe * 2^56 + type * 2^52 + instance * 2^32 + accountid, printed in *)
(* decimal.  64-bit values are kept as sequences of decimal digits (most   *)
(* significant first); accountids are below 2^31 in every string the model *)
(* draws.                                                                  *)
(***************************************************************************)
RECURSIVE ParseInt(_)
\* parseInt(s, 10) of a string of decimal digits.
ParseInt(s) ==
  IF s = <<>> THEN 0
  ELSE 10 * ParseInt(Sub(s, 1, Len(s) - 1)) + DigitVal(s[Len(s)])

RECURSIVE DivDigits(_, _, _)
\* Long division of the digits ds by d, with rem carried in: the quotient's
\* digits followed by the remainder.
DivDigits(ds, d, rem) ==
  IF ds = <<>> THEN [q |-> <<>>, r |-> rem]
  ELSE LET cur  == rem * 10 + ds[1]
           rest == DivDigits(Tail(ds), d, cur % d)
       IN  [q |-> <<cur \div d>> \o rest.q, r |-> rest.r]

RECURSIVE MulDigits(_, _, _)
\* The digits of ds * m + carry.
MulDigits(ds, m, carry) ==
  IF ds = <<>>
    THEN IF carry = 0 THEN <<>>
         ELSE MulDigits(<<>>, m, carry \div 10) \o <<carry % 10>>
    ELSE LET cur == ds[Len(ds)] * m + carry
         IN  MulDigits(Sub(ds, 1, Len(ds) - 1), m, cur \div 10) \o <<cur % 10>>

RECURSIVE StripZeros(_)
StripZeros(ds) ==
  IF Len(ds) > 1 /\ ds[1] = 0 THEN StripZeros(Tail(ds)) ELSE ds

ToDigits(s) == [k \in 1..Len(s) |-> DigitVal(s[k])]

ToChars(ds) == [k \in 1..Len(ds) |-> DigitChars[ds[k] + 1]]

SmallValue(ds) == ParseInt(ToChars(ds))

\* The default SteamID: Universe.INVALID, Type.INVALID, Instance.ALL, 0.
BlankSteamID ==
  [threw |-> FALSE, universe |-> 0, type |-> 0, instance |-> 0, accountid |-> 0]

\* The constructor threw 'Unknown SteamID input format'.
FormatError ==
  [threw |-> TRUE, universe |-> 0, type |-> 0, instance |-> 0, accountid |-> 0]

\* /^STEAM_([0-5]):([0-1]):([0-9]+)$/
IsSteam2(s) ==
  /\ Len(s) >= 11
  /\ Sub(s, 1, 6) = <<"S", "T", "E", "A", "M", "_">>
  /\ s[7] \in {"0", "1", "2", "3", "4", "5"}
  /\ s[8] = ":"
  /\ s[9] \in {"0", "1"}
  /\ s[10] = ":"
  /\ AllDigits(Sub(s, 11, Len(s)))

\* The part of a Steam3 string between "[X:N:" and "]".
Steam3Body(s) == Sub(s, 6, Len(s) - 1)

\* /^\[([a-zA-Z]):([0-5]):([0-9]+)(:[0-9]+)?\]$/
IsSteam3(s) ==
  /\ Len(s) >= 7
  /\ s[1] = "["
  /\ s[2] \in Letters
  /\ s[3] = ":"
  /\ s[4] \in {"0", "1", "2", "3", "4", "5"}
  /\ s[5] = ":"
  /\ s[Len(s)] = "]"
  /\ LET b == Steam3Body(s)
         c == PositionsOf(b, ":")
     IN  \/ AllDigits(b)
         \/ /\ Cardinality(c) = 1
            /\ AllDigits(Sub(b, 1, Min(c) - 1))
            /\ AllDigits(Sub(b, Min(c) + 1, Len(b)))

\* getTypeFromChar: the type whose TypeChars entry is the letter, else INVALID.
getTypeFromChar(c) ==
  CASE c = "I" -> 0
    [] c = "U" -> 1
    [] c = "M" -> 2
    [] c = "G" -> 3
    [] c = "A" -> 4
    [] c = "P" -> 5
    [] c = "C" -> 6
    [] c = "g" -> 7
    [] c = "T" -> 8
    [] c = "a" -> 10
    [] OTHER -> 0

\* instance |= flag, for a flag that is one bit.
BitOr(x, flag) == IF (x \div flag) % 2 = 1 THEN x ELSE x + flag

SteamIDFromSteam2(s) ==
  [threw     |-> FALSE,
   universe  |-> IF DigitVal(s[7]) = 0 THEN 1 ELSE DigitVal(s[7]),
   type      |-> 1,
   instance  |-> 1,
   accountid |-> ParseInt(Sub(s, 11, Len(s))) * 2 + DigitVal(s[9])]

SteamIDFromSteam3(s) ==
  LET b        == Steam3Body(s)
      c        == PositionsOf(b, ":")
      hasInst  == c # {}
      acc      == IF hasInst THEN Sub(b, 1, Min(c) - 1) ELSE b
      typeChar == s[2]
      inst     == IF hasInst THEN ParseInt(Sub(b, Min(c) + 1, Len(b)))
                  ELSE IF typeChar = "U" THEN 1
                  ELSE 0
  IN  [threw     |-> FALSE,
       universe  |-> DigitVal(s[4]),
       type      |-> IF typeChar \in {"c", "L"} THEN 8
                     ELSE getTypeFromChar(typeChar),
       instance  |-> IF typeChar = "c" THEN BitOr(inst, 524288)
                     ELSE IF typeChar = "L" THEN BitOr(inst, 262144)
                     ELSE inst,
       accountid |-> ParseInt(acc)]

\* A decimal string read as a 64-bit number and cut into its four fields.
SteamIDFromDecimal(s) ==
  LET lo16 == DivDigits(ToDigits(s), 65536, 0)
      hi16 == DivDigits(lo16.q, 65536, 0)
      inst == DivDigits(hi16.q, 1048576, 0)
      top  == SmallValue(StripZeros(inst.q))
  IN  [threw     |-> FALSE,
       universe  |-> top \div 16,
       type      |-> top % 16,
       instance  |-> inst.r,
       accountid |-> hi16.r * 65536 + lo16.r]

\* new SteamID(input) for a string input: a falsy input leaves the default
\* fields, then the Steam2 and Steam3 grammars are tried, then isNaN(input)
\* throws, and what is left is read as a 64-bit number.  Of the strings the
\* model draws, those for which isNaN is false are the strings of decimal
\* digits.
NewSteamID(input) ==
  IF input = <<>> THEN BlankSteamID
  ELSE IF IsSteam2(input) THEN SteamIDFromSteam2(input)
  ELSE IF IsSteam3(input) THEN SteamIDFromSteam3(input)
  ELSE IF ~AllDigits(input) THEN FormatError
  ELSE SteamIDFromDecimal(input)

\* sid.getSteamID64(): the decimal form of the 64-bit value.
getSteamID64(sid) ==
  LET high == MulDigits(<<>>, 1, sid.universe * 16 + sid.type)
      top  == MulDigits(high, 1048576, sid.instance)
      mid  == MulDigits(top, 65536, sid.accountid \div 65536)
      full == MulDigits(mid, 65536, sid.accountid % 65536)
  IN  ToChars(StripZeros(IF full = <<>> THEN <<0>> ELSE full))

(***************************************************************************)
(* The strings the model draws its inputs from.                            *)
(***************************************************************************)
\* "76561197960287930": universe 1, type 1, instance 1, accountid 22202.
IdA ==
  <<"7", "6", "5", "6", "1", "1", "9", "7", "9", "6", "0", "2", "8", "7",
    "9", "3", "0">>

\* "76561197960287931": the next account.
IdB ==
  <<"7", "6", "5", "6", "1", "1", "9", "7", "9", "6", "0", "2", "8", "7",
    "9", "3", "1">>

\* "076561197960287930": the same number as IdA, not in canonical form.
IdAZero == <<"0">> \o IdA

\* "STEAM_0:0:11101": the legacy form of IdA.
Steam2A == <<"S", "T", "E", "A", "M", "_", "0", ":", "0", ":", "1", "1", "1", "0", "1">>

\* "[U:1:22203]": the short form of IdB.
Steam3B == <<"[", "U", ":", "1", ":", "2", "2", "2", "0", "3", "]">>

\* "coolname": a vanity name.
CoolName == <<"c", "o", "o", "l", "n", "a", "m", "e">>

\* "cool/name": a name followed by a further path segment.
SubPath == <<"c", "o", "o", "l", "/", "n", "a", "m", "e">>

Slash == <<"/">>

\* The four strings the two regular expressions match.
Prefixes ==
  {HttpWord \o profilesRegex, HttpWord \o <<"s">> \o profilesRegex,
   HttpWord \o customRegex, HttpWord \o <<"s">> \o customRegex}

\* What may follow a prefix: nothing, identifiers in every form, names.
Bodies == {<<>>, IdA, IdAZero, Steam2A, Steam3B, CoolName, SubPath}

RECURSIVE Slashes(_)
Slashes(n) == IF n = 0 THEN <<>> ELSE Slash \o Slashes(n - 1)

\* Longest run of trailing slashes on a drawn URL.
MaxTrail == 1

\* prefix, body and trailing slashes: profile URLs and their neighbours.
UrlCandidates ==
  {p \o b \o Slashes(n) : p \in Prefixes, b \in Bodies, n \in 0..MaxTrail}

\* Strings in which a prefix is not at the start, or occurs twice.
OddCandidates ==
  LET P == HttpWord \o <<"s">> \o profilesRegex
      C == HttpWord \o customRegex
  IN  {Slash \o P \o P \o CoolName, P \o P \o IdA, P \o C \o CoolName,
       C \o P \o IdA, Slash \o C \o C \o IdA, CoolName \o P \o IdA,
       CoolName \o Slash, HttpWord \o <<"s">> \o HostPart \o CoolName}

Candidates == Bodies \cup UrlCandidates \cup OddCandidates

(***************************************************************************)
(* Values returned and thrown.                                             *)
(***************************************************************************)
NoOutcome ==
  [kind |-> "none", sid |-> BlankSteamID, str |-> <<>>, flag |-> FALSE,
   list |-> <<>>, error |-> ""]

ReturnSteamID(sid) == [NoOutcome EXCEPT !.kind = "steamid", !.sid = sid]

ReturnString(str) == [NoOutcome EXCEPT !.kind = "string", !.str = str]

ReturnBool(flag) == [NoOutcome EXCEPT !.kind = "bool", !.flag = flag]

ReturnArray(list) == [NoOutcome EXCEPT !.kind = "array", !.list = list]

Throw(error) == [NoOutcome EXCEPT !.kind = "error", !.error = error]

\* Error('Only 100 steamIDs can be requested at a time!')
TooManyTargets == "TooManyTargets"

\* Error('Unknown SteamID input format "..."'), thrown by new SteamID.
UnknownFormat == "UnknownSteamIDFormat"

\* What axios.get rejects with.
NetworkError == "NetworkError"

\* 'Could not reach the VanityURL API'
NotReached == "CouldNotReach"

\* 'Not a valid SteamID'
NotValid == "NotAValidSteamID"

(***************************************************************************)
(* The synchronous resolver functions.                                     *)
(***************************************************************************)
\* getSteamID taking the 64-bit decimal form only.
getSteamID_DigitsOnly(url) ==
  LET sid == NewSteamID(resolveURL(url))
  IN  IF sid.threw \/ ~AllDigits(resolveURL(url)) THEN Throw(UnknownFormat)
      ELSE ReturnSteamID(sid)

\* new SteamID(url) after resolveURL; a throw is passed on.
getSteamID(url) ==
  LET sid == NewSteamID(resolveURL(url))
  IN  IF sid.threw THEN Throw(UnknownFormat) ELSE ReturnSteamID(sid)

\* try { new SteamID(x) } catch { return false }  return true
isValidSteamID(steamIDToCheck) == ~NewSteamID(steamIDToCheck).threw

(***************************************************************************)
(* Requests and responses.  A request is the URL handed to axios.get: the  *)
(* endpoint, the key and the value of the one further query parameter.     *)
(* axios.get resolves to a response object whose data field holds the      *)
(* parsed body, or rejects.                                                *)
(***************************************************************************)
VanityEndpoint == "ISteamUser/ResolveVanityURL/v0001"

SummariesEndpoint == "ISteamUser/GetPlayerSummaries/v0002"

BansEndpoint == "ISteamUser/GetPlayerBans/v1"

RequestURL(endpoint, key, param, value) ==
  [endpoint |-> endpoint, key |-> key, param |-> param, value |-> value]

\* Whether a JavaScript object has the field.
Has(obj, f) == f \in DOMAIN obj

\* axios.get rejected.
Rejected == [kind |-> "rejected"]

\* axios.get resolved to a falsy value.
Falsy == [kind |-> "falsy"]

\* axios.get resolved to a response object with this body.
Resolved(body) == [kind |-> "object", object |-> [data |-> body, status |-> 200]]

\* steamid values a vanity lookup may answer with.
RemoteSteamIDs == {IdB, IdAZero, Steam2A, CoolName}

\* {response: {success: 1, steamid}}, {response: {success: 42, message}},
\* a success with an empty steamid, and a body without the response field.
VanityResponses ==
  {Rejected, Falsy}
    \cup {Resolved([response |-> [success |-> 1, steamid |-> x]]) : x \in RemoteSteamIDs}
    \cup {Resolved([response |-> [success |-> 42, message |-> "No match"]]),
          Resolved([response |-> [success |-> 1, steamid |-> <<>>]]),
          Resolved([message |-> "Forbidden"])}

\* Longest players array in a drawn payload.
MaxPlayers == 2

\* The entries of a payload: opaque records, told apart by one field.
PlayerEntries == {[steamid |-> IdA], [steamid |-> IdB]}

RECURSIVE SeqsUpTo(_, _)
\* Every sequence over S of length at most n.
SeqsUpTo(S, n) ==
  IF n = 0 THEN {<<>>}
  ELSE LET shorter == SeqsUpTo(S, n - 1)
       IN  shorter \cup {Append(q, x) : q \in {r \in shorter : Len(r) = n - 1}, x \in S}

PlayerLists == SeqsUpTo(PlayerEntries, MaxPlayers)

\* GetPlayerSummaries answers {response: {players: [...]}}; players may be absent.
SummariesResponses ==
  {Rejected, Falsy}
    \cup {Resolved([response |-> [players |-> l]]) : l \in PlayerLists}
    \cup {Resolved([response |-> [message |-> "none"]])}

\* GetPlayerBans answers {players: [...]}.
BansResponses ==
  {Rejected, Falsy} \cup {Resolved([players |-> l]) : l \in PlayerLists}

(***************************************************************************)
(* resolveVanityUrl and getSteamIDAsync.                                   *)
(***************************************************************************)
\* resolveVanityUrl up to its await: the request it issues.
resolveVanityUrlRequest(vanity, key) ==
  RequestURL(VanityEndpoint, key, "vanityurl", vanity)

\* resolveVanityUrl from its await on: the SteamID returned, or what is thrown.
resolveVanityUrl(response) ==
  IF response.kind = "rejected" THEN Throw(NetworkError)
  ELSE IF response.kind = "falsy" THEN Throw(NotReached)
  ELSE LET data == response.object.data
       IN  IF ~Has(data, "response") THEN Throw("TypeError")
           ELSE IF ~Has(data.response, "steamid") \/ data.response.steamid = <<>>
             THEN Throw(NotValid)
           ELSE LET sid == NewSteamID(data.response.steamid)
                IN  IF sid.threw THEN Throw(UnknownFormat) ELSE ReturnSteamID(sid)

\* getSteamIDAsync without its first check: every candidate is looked up.
getSteamIDAsyncBegin_AlwaysLookup(steamResolvable, key) ==
  LET norm == resolveURL(steamResolvable)
  IN  [pc |-> "awaiting", norm |-> norm,
       sent |-> <<resolveVanityUrlRequest(norm, key)>>, outcome |-> NoOutcome]

\* getSteamIDAsync checking validity after normalising: a profile URL with
\* an identifier in it is then resolved with no lookup.
getSteamIDAsyncBegin_NormalizeFirst(steamResolvable, key) ==
  LET norm == resolveURL(steamResolvable)
  IN  IF isValidSteamID(norm)
        THEN [pc |-> "done", norm |-> norm, sent |-> <<>>,
              outcome |-> ReturnSteamID(NewSteamID(norm))]
        ELSE [pc |-> "awaiting", norm |-> norm,
              sent |-> <<resolveVanityUrlRequest(norm, key)>>,
              outcome |-> NoOutcome]

\* getSteamIDAsync looking up the candidate as given, not normalised.
getSteamIDAsyncBegin_LooksUpRaw(steamResolvable, key) ==
  IF isValidSteamID(steamResolvable)
    THEN [pc |-> "done", norm |-> steamResolvable, sent |-> <<>>,
          outcome |-> ReturnSteamID(NewSteamID(steamResolvable))]
    ELSE [pc |-> "awaiting", norm |-> resolveURL(steamResolvable),
          sent |-> <<resolveVanityUrlRequest(steamResolvable, key)>>,
          outcome |-> NoOutcome]

\* getSteamIDAsync up to its await: a valid candidate is constructed and
\* returned; any other is normalised and looked up.
getSteamIDAsyncBegin(steamResolvable, key) ==
  IF isValidSteamID(steamResolvable)
    THEN [pc |-> "done", norm |-> steamResolvable, sent |-> <<>>,
          outcome |-> ReturnSteamID(NewSteamID(steamResolvable))]
    ELSE LET norm == resolveURL(steamResolvable)
         IN  [pc |-> "awaiting", norm |-> norm,
              sent |-> <<resolveVanityUrlRequest(norm, key)>>,
              outcome |-> NoOutcome]

\* The chain without its then: the looked up identifier is dropped.
AfterLookup_KeepsInput(steamResolvable, looked) == steamResolvable

\* .then((sid) => sid.getSteamID64()).catch(() => steamResolvable)
AfterLookup(steamResolvable, looked) ==
  IF looked.kind = "steamid" THEN getSteamID64(looked.sid) ELSE steamResolvable

\* getSteamIDAsync without the catch: a failed lookup is thrown on.
getSteamIDAsyncResume_NoCatch(steamResolvable, response) ==
  LET looked == resolveVanityUrl(response)
  IN  IF looked.kind = "error" THEN looked
      ELSE ReturnSteamID(NewSteamID(getSteamID64(looked.sid)))

\* getSteamIDAsync from its await on.
getSteamIDAsyncResume(steamResolvable, response) ==
  LET sid == NewSteamID(AfterLookup(steamResolvable, resolveVanityUrl(response)))
  IN  IF sid.threw THEN Throw(UnknownFormat) ELSE ReturnSteamID(sid)

(***************************************************************************)
(* The bulk fetches.  A target is a string or a SteamID object.            *)
(***************************************************************************)
\* targets.length > 100
MaxTargets == 100

StringTarget(str) == [tag |-> "string", str |-> str, sid |-> BlankSteamID]

ObjectTarget(sid) == [tag |-> "SteamID", str |-> <<>>, sid |-> sid]

\* What one pass of the loop of SteamIDResolvablesToSteamID64 makes of a
\* target: the SteamID it is, or the one constructed from the string.
ElementSteamID(element) ==
  IF element.tag = "SteamID" THEN element.sid ELSE NewSteamID(element.str)

\* The loop with a continue in its catch: targets that do not parse are
\* left out.
SteamIDResolvablesToSteamID64_SkipsBad(targets) ==
  LET kept == SelectSeq(targets, LAMBDA t : ~ElementSteamID(t).threw)
  IN  [threw     |-> FALSE,
       steamIDs  |-> [i \in 1..Len(kept) |-> getSteamID64(ElementSteamID(kept[i]))],
       converted |-> Len(targets)]

\* The loop runs in index order and ends at the first target whose
\* constructor throws: the array built, whether a constructor threw, and
\* how many targets were looked at.
SteamIDResolvablesToSteamID64(targets) ==
  LET failing == {i \in 1..Len(targets) : ElementSteamID(targets[i]).threw}
  IN  IF failing = {}
        THEN [threw     |-> FALSE,
              steamIDs  |-> [i \in 1..Len(targets) |->
                               getSteamID64(ElementSteamID(targets[i]))],
              converted |-> Len(targets)]
        ELSE [threw     |-> TRUE,
              steamIDs  |-> [i \in 1..(Min(failing) - 1) |->
                               getSteamID64(ElementSteamID(targets[i]))],
              converted |-> Min(failing)]

RECURSIVE Join(_)
\* array.join(','), which is also what `${array}` prints.
Join(array) ==
  IF array = <<>> THEN <<>>
  ELSE IF Len(array) = 1 THEN array[1]
  ELSE LET half == Len(array) \div 2
       IN  Join(Sub(array, 1, half)) \o <<",">> \o Join(Sub(array, half + 1, Len(array)))

\* for (index ...) returnArray.push(dataArray[index])
PushAll(dataArray) == [index \in 1..Len(dataArray) |-> dataArray[index]]

\* GetPlayerSummaries up to its await.
GetPlayerSummariesBegin(targets, key) ==
  IF Len(targets) > MaxTargets
    THEN [pc |-> "done", sent |-> <<>>, converted |-> 0,
          outcome |-> Throw(TooManyTargets)]
  ELSE LET ids == SteamIDResolvablesToSteamID64(targets)
       IN  IF ids.threw
             THEN [pc |-> "done", sent |-> <<>>, converted |-> ids.converted,
                   outcome |-> Throw(UnknownFormat)]
             ELSE [pc |-> "awaiting",
                   sent |-> <<RequestURL(SummariesEndpoint, key, "steamids",
                                         Join(ids.steamIDs))>>,
                   converted |-> ids.converted, outcome |-> NoOutcome]

\* GetPlayerSummaries from its await on: response.data.response.players.
GetPlayerSummariesResume(response) ==
  IF response.kind = "rejected" THEN Throw(NetworkError)
  ELSE IF response.kind = "falsy" THEN ReturnArray(<<>>)
  ELSE LET data == response.object.data
       IN  IF ~Has(data, "response") THEN Throw("TypeError")
           ELSE IF Has(data.response, "players") /\ Len(data.response.players) > 0
             THEN ReturnArray(PushAll(data.response.players))
           ELSE ReturnArray(<<>>)

\* GetPlayerBans with >= in its first check.
GetPlayerBansBegin_OffByOne(targets, key) ==
  IF Len(targets) >= MaxTargets
    THEN [pc |-> "done", sent |-> <<>>, converted |-> 0,
          outcome |-> Throw(TooManyTargets)]
  ELSE LET ids == SteamIDResolvablesToSteamID64(targets)
       IN  IF ids.threw
             THEN [pc |-> "done", sent |-> <<>>, converted |-> ids.converted,
                   outcome |-> Throw(UnknownFormat)]
             ELSE [pc |-> "awaiting",
                   sent |-> <<RequestURL(BansEndpoint, key, "steamids",
                                         Join(ids.steamIDs))>>,
                   converted |-> ids.converted, outcome |-> NoOutcome]

\* GetPlayerBans up to its await.
GetPlayerBansBegin(targets, key) ==
  IF Len(targets) > MaxTargets
    THEN [pc |-> "done", sent |-> <<>>, converted |-> 0,
          outcome |-> Throw(TooManyTargets)]
  ELSE LET ids == SteamIDResolvablesToSteamID64(targets)
       IN  IF ids.threw
             THEN [pc |-> "done", sent |-> <<>>, converted |-> ids.converted,
                   outcome |-> Throw(UnknownFormat)]
             ELSE [pc |-> "awaiting",
                   sent |-> <<RequestURL(BansEndpoint, key, "steamids",
                                         Join(ids.steamIDs))>>,
                   converted |-> ids.converted, outcome |-> NoOutcome]

\* GetPlayerBans from its await on: response.players, read from the response
\* object itself and not from its data.
GetPlayerBansResume(response) ==
  IF response.kind = "rejected" THEN Throw(NetworkError)
  ELSE IF response.kind = "falsy" THEN ReturnArray(<<>>)
  ELSE LET object == response.object
       IN  IF Has(object, "players") /\ Len(object.players) > 0
             THEN ReturnArray(PushAll(object.players))
           ELSE ReturnArray(<<>>)

\* getPlayerSummaries of src/index.ts up to its await: the targets are
\* strings and are sent as they are.  (getPlayerSummaries of part_000 only
\* forwards its targets to GetPlayerSummaries.)
getPlayerSummariesBegin(targets, key) ==
  IF Len(targets) > MaxTargets
    THEN [pc |-> "done", sent |-> <<>>, converted |-> 0,
          outcome |-> Throw(TooManyTargets)]
    ELSE [pc |-> "awaiting",
          sent |-> <<RequestURL(SummariesEndpoint, key, "steamids",
                                Join([i \in 1..Len(targets) |-> targets[i].str]))>>,
          converted |-> 0, outcome |-> NoOutcome]

\* getPlayerSummaries of src/index.ts from its await on.
getPlayerSummariesResume(response) ==
  IF response.kind = "rejected" THEN Throw(NetworkError)
  ELSE IF response.kind = "falsy" THEN ReturnArray(<<>>)
  ELSE LET data == response.object.data
       IN  IF ~Has(data, "response") THEN Throw("TypeError")
           ELSE IF Has(data.response, "players") /\ Len(data.response.players) > 0
             THEN ReturnArray(PushAll(data.response.players))
           ELSE ReturnArray(<<>>)

(***************************************************************************)
(* The target lists the model draws.                                       *)
(***************************************************************************)
\* Targets that convert, among them forms that are not the 64-bit form.
GoodTargets ==
  <<StringTarget(IdA), StringTarget(Steam2A), ObjectTarget(NewSteamID(IdB)),
    StringTarget(Steam3B), StringTarget(IdAZero)>>

\* A target no SteamID can be constructed from.
BadTarget == StringTarget(CoolName)

\* Longest list drawn from every combination of targets.
MaxSmallTargets == 2

\* How far beyond the limit of 100 the long lists go.
MaxOver == 1

SmallTargetLists ==
  SeqsUpTo({GoodTargets[1], GoodTargets[2], GoodTargets[3], BadTarget},
           MaxSmallTargets)

\* n targets that convert, but for the one at index bad (0: none).
LongTargets(n, bad) ==
  [i \in 1..n |-> IF i = bad THEN BadTarget
                  ELSE GoodTargets[(i % Len(GoodTargets)) + 1]]

LongTargetLists ==
  {LongTargets(n, bad) : n \in (MaxTargets - 1)..(MaxTargets + MaxOver),
                         bad \in {0, 1, MaxTargets - 1}}

TargetLists == SmallTargetLists \cup LongTargetLists

\* src/index.ts takes strings only, and sends whatever strings it is given.
StringTargetLists ==
  {t \in SmallTargetLists : \A i \in 1..Len(t) : t[i].tag = "string"}
    \cup {[i \in 1..n |-> IF i % 2 = 0 THEN GoodTargets[1] ELSE GoodTargets[2]] :
            n \in (MaxTargets - 1)..(MaxTargets + MaxOver)}

(***************************************************************************)
(* The state: the module's key, and the calls in progress.  A call is      *)
(* idle, awaiting the response to the request it issued, or done with the  *)
(* value it returned or threw; sent lists the requests it handed to        *)
(* axios.get, settled counts the responses it got, converted the targets   *)
(* SteamIDResolvablesToSteamID64 looked at, overlapped whether another    *)
(* call was awaiting a response when this call got its own (kept for the   *)
(* observer; no function of the program reads it).                         *)
(***************************************************************************)
VARIABLES apiKey, calls

vars == <<apiKey, calls>>

Keys == {"", "KEY1", "KEY2"}

\* The calls that may be in progress at a time.
Slots == {1}

IdleCall ==
  [op |-> "none", pc |-> "idle", arg |-> <<>>, prev |-> <<>>, chained |-> FALSE,
   targets |-> <<>>, norm |-> <<>>, sent |-> <<>>, settled |-> 0,
   converted |-> 0, response |-> Falsy, outcome |-> NoOutcome, overlapped |-> FALSE]

\* let apiKey: string = ''
Init ==
  /\ apiKey = ""
  /\ calls = [s \in Slots |-> IdleCall]

setApiKey(key) ==
  /\ apiKey' = key
  /\ UNCHANGED calls

\* A synchronous function called with a string: it runs to its end.
SyncCall(s, op, arg, outcome) ==
  /\ calls[s].pc = "idle"
  /\ calls' = [calls EXCEPT ![s] =
       [IdleCall EXCEPT !.op = op, !.pc = "done", !.arg = arg, !.outcome = outcome]]
  /\ UNCHANGED apiKey

Invoke_resolveURL(s, url) ==
  SyncCall(s, "resolveURL", url, ReturnString(resolveURL(url)))

\* The caller hands the string resolveURL returned to resolveURL again.
Invoke_resolveURLAgain(s) ==
  /\ calls[s].pc = "done"
  /\ calls[s].op = "resolveURL"
  /\ ~calls[s].chained
  /\ LET url == calls[s].outcome.str
     IN  calls' = [calls EXCEPT ![s] =
           [IdleCall EXCEPT !.op = "resolveURL", !.pc = "done", !.arg = url,
                            !.prev = calls[s].arg, !.chained = TRUE,
                            !.outcome = ReturnString(resolveURL(url))]]
  /\ UNCHANGED apiKey

Invoke_getSteamID(s, url) == SyncCall(s, "getSteamID", url, getSteamID(url))

Invoke_isValidSteamID(s, steamIDToCheck) ==
  SyncCall(s, "isValidSteamID", steamIDToCheck,
           ReturnBool(isValidSteamID(steamIDToCheck)))

Invoke_getSteamIDAsync(s, steamResolvable) ==
  /\ calls[s].pc = "idle"
  /\ LET b == getSteamIDAsyncBegin(steamResolvable, apiKey)
     IN  calls' = [calls EXCEPT ![s] =
           [IdleCall EXCEPT !.op = "getSteamIDAsync", !.pc = b.pc,
                            !.arg = steamResolvable, !.norm = b.norm,
                            !.sent = b.sent, !.outcome = b.outcome]]
  /\ UNCHANGED apiKey

\* The other calls awaiting a response.
AwaitingPeers(s) == {t \in DOMAIN calls \ {s} : calls[t].pc = "awaiting"}

\* getSteamIDAsync with steamResolvable declared in the module instead of in
\* the function: after the await it holds what a later call put there.
Resume_getSteamIDAsync_SharedResolvable(s, response) ==
  /\ calls[s].pc = "awaiting"
  /\ calls[s].op = "getSteamIDAsync"
  /\ LET from == IF AwaitingPeers(s) = {} THEN s
                 ELSE CHOOSE t \in AwaitingPeers(s) : TRUE
     IN  calls' = [calls EXCEPT ![s].pc = "done",
                                ![s].settled = @ + 1,
                                ![s].response = response,
                                ![s].overlapped = (AwaitingPeers(s) # {}),
                                ![s].outcome =
                                  getSteamIDAsyncResume(calls[from].norm, response)]
  /\ UNCHANGED apiKey

\* The vanity lookup settles and getSteamIDAsync runs to its end.
Resume_getSteamIDAsync(s, response) ==
  /\ calls[s].pc = "awaiting"
  /\ calls[s].op = "getSteamIDAsync"
  /\ calls' = [calls EXCEPT ![s].pc = "done",
                            ![s].settled = @ + 1,
                            ![s].response = response,
                            ![s].overlapped = (AwaitingPeers(s) # {}),
                            ![s].outcome =
                              getSteamIDAsyncResume(calls[s].norm, response)]
  /\ UNCHANGED apiKey

\* A bulk fetch called with its targets: b is what it did up to its await.
BulkCall(s, op, targets, b) ==
  /\ calls[s].pc = "idle"
  /\ calls' = [calls EXCEPT ![s] =
       [IdleCall EXCEPT !.op = op, !.pc = b.pc, !.targets = targets,
                        !.sent = b.sent, !.converted = b.converted,
                        !.outcome = b.outcome]]
  /\ UNCHANGED apiKey

\* The request of a bulk fetch settles and the fetch runs to its end.
BulkResume(s, op, response, outcome) ==
  /\ calls[s].pc = "awaiting"
  /\ calls[s].op = op
  /\ calls' = [calls EXCEPT ![s].pc = "done",
                            ![s].settled = @ + 1,
                            ![s].response = response,
                            ![s].outcome = outcome]
  /\ UNCHANGED apiKey

Invoke_GetPlayerSummaries(s, targets) ==
  BulkCall(s, "GetPlayerSummaries", targets,
           GetPlayerSummariesBegin(targets, apiKey))

Resume_GetPlayerSummaries(s, response) ==
  BulkResume(s, "GetPlayerSummaries", response, GetPlayerSummariesResume(response))

Invoke_GetPlayerBans(s, targets) ==
  BulkCall(s, "GetPlayerBans", targets, GetPlayerBansBegin(targets, apiKey))

Resume_GetPlayerBans(s, response) ==
  BulkResume(s, "GetPlayerBans", response, GetPlayerBansResume(response))

Invoke_getPlayerSummaries(s, targets) ==
  BulkCall(s, "getPlayerSummaries", targets,
           getPlayerSummariesBegin(targets, apiKey))

Resume_getPlayerSummaries(s, response) ==
  BulkResume(s, "getPlayerSummaries", response, getPlayerSummariesResume(response))

\* The caller has taken what the call returned or threw.
Finish(s) ==
  /\ calls[s].pc = "done"
  /\ calls' = [calls EXCEPT ![s] = IdleCall]
  /\ UNCHANGED apiKey

Next ==
  \/ \E key \in Keys : setApiKey(key)
  \/ \E s \in Slots, c \in Candidates : Invoke_resolveURL(s, c)
  \/ \E s \in Slots : Invoke_resolveURLAgain(s)
  \/ \E s \in Slots, c \in Candidates : Invoke_getSteamID(s, c)
  \/ \E s \in Slots, c \in Candidates : Invoke_isValidSteamID(s, c)
  \/ \E s \in Slots, c \in Candidates : Invoke_getSteamIDAsync(s, c)
  \/ \E s \in Slots, r \in VanityResponses : Resume_getSteamIDAsync(s, r)
  \/ \E s \in Slots, t \in TargetLists : Invoke_GetPlayerSummaries(s, t)
  \/ \E s \in Slots, r \in SummariesResponses : Resume_GetPlayerSummaries(s, r)
  \/ \E s \in Slots, t \in TargetLists : Invoke_GetPlayerBans(s, t)
  \/ \E s \in Slots, r \in BansResponses : Resume_GetPlayerBans(s, r)
  \/ \E s \in Slots, t \in StringTargetLists : Invoke_getPlayerSummaries(s, t)
  \/ \E s \in Slots, r \in SummariesResponses : Resume_getPlayerSummaries(s, r)
  \/ \E s \in Slots : Finish(s)

Spec == Init /\ [][Next]_vars

(***************************************************************************)
(* Concurrent resolution: several getSteamIDAsync calls in progress at a   *)
(* time, their lookups settling in any order, the key set at any moment.   *)
(***************************************************************************)
\* Calls that may be in progress at a time.
MaxConcurrent == 2

\* A valid identifier, a vanity name and a profile URL with an identifier
\* in it.
ConcurrentCandidates ==
  {IdA, CoolName, HttpWord \o <<"s">> \o profilesRegex \o IdA \o Slash}

ConcurrentKeys == {"", "KEY1"}

\* A rejection, a steamid, and a steamid that does not parse.
ConcurrentResponses ==
  {Rejected,
   Resolved([response |-> [success |-> 1, steamid |-> IdB]]),
   Resolved([response |-> [success |-> 1, steamid |-> CoolName]])}

InitConcurrent ==
  /\ apiKey = ""
  /\ calls = [s \in 1..MaxConcurrent |-> IdleCall]

NextConcurrent ==
  \/ \E key \in ConcurrentKeys : setApiKey(key)
  \/ \E s \in DOMAIN calls, c \in ConcurrentCandidates : Invoke_getSteamIDAsync(s, c)
  \/ \E s \in DOMAIN calls, r \in ConcurrentResponses : Resume_getSteamIDAsync(s, r)
  \/ \E s \in DOMAIN calls : Finish(s)

SpecConcurrent == InitConcurrent /\ [][NextConcurrent]_vars

(***************************************************************************)
(* Properties.                                                             *)
(***************************************************************************)
AsyncCalls == {s \in DOMAIN calls : calls[s].op = "getSteamIDAsync"}

\* The steamid of a vanity response, <<>> when it carries none.
SteamidOf(response) ==
  IF /\ response.kind = "object"
     /\ Has(response.object.data, "response")
     /\ Has(response.object.data.response, "steamid")
    THEN response.object.data.response.steamid
    ELSE <<>>

\* The lookup answered with a steamid an identifier can be constructed from.
LookupSucceeded(response) ==
  SteamidOf(response) # <<>> /\ ~NewSteamID(SteamidOf(response)).threw

\* C1: a getSteamIDAsync call whose candidate is a valid identifier string
\* is done at once, with the identifier constructed from the candidate, and
\* has issued no request and received no response.
C1_ValidCandidateNoRequest ==
  \A s \in AsyncCalls :
    isValidSteamID(calls[s].arg) =>
      /\ calls[s].pc = "done"
      /\ calls[s].outcome = ReturnSteamID(NewSteamID(calls[s].arg))
      /\ calls[s].sent = <<>>
      /\ calls[s].settled = 0

\* C1 witness: the legacy form STEAM_0:0:11101 resolved with no request.
C1_Witness ==
  \E s \in AsyncCalls :
    /\ calls[s].arg = Steam2A
    /\ calls[s].pc = "done"
    /\ calls[s].outcome.kind = "steamid"
    /\ calls[s].sent = <<>>

\* http(s)://steamcommunity.com/profiles/76561197960287930, with or without
\* the trailing slash.
ProfileIdURLs ==
  {HttpWord \o s \o profilesRegex \o IdA \o t : s \in {<<>>, <<"s">>}, t \in {<<>>, Slash}}

\* C2 as stated: a getSteamIDAsync call on a profile URL with an embedded
\* identifier normalises it to the identifier, issues no request and
\* returns that identifier.
C2_ProfileURLNoRequest ==
  \A s \in AsyncCalls :
    calls[s].arg \in ProfileIdURLs =>
      /\ calls[s].norm = IdA
      /\ calls[s].sent = <<>>
      /\ calls[s].pc = "done" => calls[s].outcome = ReturnSteamID(NewSteamID(IdA))

\* C2 amended: a getSteamIDAsync call on a profile URL with an embedded
\* identifier normalises it to the identifier and issues exactly one vanity
\* lookup carrying it; when the lookup fails the call returns that
\* identifier, and when the lookup answers with a steamid it returns the
\* identifier of that steamid.
C2_ProfileURLOneLookup ==
  \A s \in AsyncCalls :
    calls[s].arg \in ProfileIdURLs =>
      /\ calls[s].norm = IdA
      /\ Len(calls[s].sent) = 1
      /\ calls[s].sent[1].endpoint = VanityEndpoint
      /\ calls[s].sent[1].param = "vanityurl"
      /\ calls[s].sent[1].value = IdA
      /\ calls[s].pc = "done" =>
           /\ calls[s].settled = 1
           /\ calls[s].outcome =
                IF LookupSucceeded(calls[s].response)
                  THEN ReturnSteamID(NewSteamID(SteamidOf(calls[s].response)))
                  ELSE ReturnSteamID(NewSteamID(IdA))

\* C2 witness: the URL of scenario B, its lookup answered "No match", resolved
\* to the identifier in the URL after one request.
C2_Witness ==
  \E s \in AsyncCalls :
    /\ calls[s].arg = HttpWord \o <<"s">> \o profilesRegex \o IdA \o Slash
    /\ calls[s].pc = "done"
    /\ calls[s].response = Resolved([response |-> [success |-> 42, message |-> "No match"]])
    /\ Len(calls[s].sent) = 1
    /\ calls[s].outcome = ReturnSteamID(NewSteamID(IdA))

\* C3: when the vanity lookup of a getSteamIDAsync call fails (axios
\* rejects, the response is falsy, or it carries no steamid an identifier
\* can be made of), the call ends with the identifier constructed from the
\* normalised candidate if there is one, and else with the constructor's
\* format error; never with the lookup's failure.
C3_LookupFailureFallsBack ==
  \A s \in AsyncCalls :
    (calls[s].pc = "done" /\ calls[s].settled = 1
       /\ ~LookupSucceeded(calls[s].response)) =>
      /\ calls[s].norm = resolveURL(calls[s].arg)
      /\ calls[s].outcome =
           IF NewSteamID(calls[s].norm).threw THEN Throw(UnknownFormat)
           ELSE ReturnSteamID(NewSteamID(calls[s].norm))

\* C3 witness: "coolname", the lookup answering "No match", ends with the
\* format error.
C3_Witness ==
  \E s \in AsyncCalls :
    /\ calls[s].arg = CoolName
    /\ calls[s].pc = "done"
    /\ calls[s].response = Resolved([response |-> [success |-> 42, message |-> "No match"]])
    /\ calls[s].outcome = Throw(UnknownFormat)

BulkCalls ==
  {s \in DOMAIN calls : calls[s].op \in {"GetPlayerSummaries", "GetPlayerBans"}}

\* C4: a bulk fetch called with more than 100 targets is done at once with
\* the too-many-targets error, having looked at no target and issued no
\* request; one called with exactly 100 does not end with that error.
C4_TooManyTargetsRejectedFirst ==
  \A s \in DOMAIN calls :
    calls[s].op \in {"GetPlayerSummaries", "GetPlayerBans", "getPlayerSummaries"} =>
      /\ Len(calls[s].targets) > 100 =>
           /\ calls[s].pc = "done"
           /\ calls[s].outcome = Throw(TooManyTargets)
           /\ calls[s].converted = 0
           /\ calls[s].sent = <<>>
           /\ calls[s].settled = 0
      /\ Len(calls[s].targets) = 100 =>
           calls[s].outcome.error # TooManyTargets

\* C4 witness: GetPlayerBans called with 101 targets that all convert,
\* rejected with none of them looked at.
C4_Witness ==
  \E s \in DOMAIN calls :
    /\ calls[s].op = "GetPlayerBans"
    /\ calls[s].targets = LongTargets(101, 0)
    /\ calls[s].pc = "done"
    /\ calls[s].outcome = Throw(TooManyTargets)
    /\ calls[s].converted = 0

\* A recognised prefix at the start, then one path segment (no slash in
\* it), then at most one slash.
IsProfileURL(x) ==
  \E p \in Prefixes :
    /\ IsPrefixAt(x, 1, p)
    /\ LET rest == Sub(x, Len(p) + 1, Len(x))
       IN  \A k \in 1..(Len(rest) - 1) : rest[k] # "/"

\* The path segment of a profile URL.
ProfileSegment(x) ==
  LET p    == CHOOSE q \in Prefixes : IsPrefixAt(x, 1, q)
      rest == Sub(x, Len(p) + 1, Len(x))
  IN  IF rest # <<>> /\ rest[Len(rest)] = "/" THEN Sub(rest, 1, Len(rest) - 1)
      ELSE rest

\* Whether one of the four recognised prefixes occurs anywhere in x.
ContainsPrefix(x) ==
  \E p \in Prefixes : \E i \in 1..Len(x) : IsPrefixAt(x, i, p)

\* C5: resolveURL of a profile URL (a recognised prefix, one path segment,
\* at most one trailing slash) is the segment, with the prefix and the
\* trailing slash gone; resolveURL of that result is the result again; and
\* a string in which no recognised prefix occurs is returned as it is.
C5_ResolveURLStripsAndIsIdempotent ==
  \A s \in DOMAIN calls :
    (calls[s].op = "resolveURL" /\ calls[s].pc = "done") =>
      /\ (~calls[s].chained /\ IsProfileURL(calls[s].arg)) =>
           calls[s].outcome = ReturnString(ProfileSegment(calls[s].arg))
      /\ (calls[s].chained /\ IsProfileURL(calls[s].prev)) =>
           calls[s].outcome = ReturnString(calls[s].arg)
      /\ ~ContainsPrefix(calls[s].arg) =>
           calls[s].outcome = ReturnString(calls[s].arg)

\* C5 witness: resolveURL applied to what it made of
\* "https://steamcommunity.com/id/coolname/", which is "coolname".
C5_Witness ==
  \E s \in DOMAIN calls :
    /\ calls[s].op = "resolveURL"
    /\ calls[s].pc = "done"
    /\ calls[s].chained
    /\ calls[s].prev = HttpWord \o <<"s">> \o customRegex \o CoolName \o Slash
    /\ calls[s].arg = CoolName
    /\ calls[s].outcome = ReturnString(CoolName)

\* The player entries of the body of a response, none when it has no
\* players field: {response: {players}} for GetPlayerSummaries, {players}
\* for GetPlayerBans.
PayloadPlayers(op, response) ==
  LET body == response.object.data
  IN  IF op = "GetPlayerSummaries"
        THEN IF Has(body, "response") /\ Has(body.response, "players")
               THEN body.response.players ELSE <<>>
        ELSE IF Has(body, "players") THEN body.players ELSE <<>>

\* C6: a bulk fetch whose request was answered with a payload returns an
\* array of exactly the payload's player entries, in the payload's order;
\* the empty array when the payload has none.
C6_ReturnsPayloadPlayers ==
  \A s \in BulkCalls :
    (calls[s].pc = "done" /\ calls[s].settled = 1
       /\ calls[s].response.kind = "object") =>
      calls[s].outcome = ReturnArray(PayloadPlayers(calls[s].op, calls[s].response))

\* C7: when the vanity lookup of a getSteamIDAsync call answers with a
\* steamid an identifier can be constructed from, the call returns the
\* identifier constructed from that steamid.
C7_LookupResultReturned ==
  \A s \in AsyncCalls :
    (calls[s].pc = "done" /\ calls[s].settled = 1
       /\ LookupSucceeded(calls[s].response)) =>
      /\ ~isValidSteamID(calls[s].arg)
      /\ calls[s].outcome =
           ReturnSteamID(NewSteamID(SteamidOf(calls[s].response)))

\* C7 witness: a profile URL with IdA in it, the lookup answering with IdB:
\* the call returns IdB's identifier, not IdA's.
C7_Witness ==
  \E s \in AsyncCalls :
    /\ calls[s].arg = HttpWord \o <<"s">> \o profilesRegex \o IdA
    /\ calls[s].pc = "done"
    /\ SteamidOf(calls[s].response) = IdB
    /\ calls[s].outcome = ReturnSteamID(NewSteamID(IdB))
    /\ NewSteamID(IdB) # NewSteamID(IdA)

\* C8: getSteamID of a string for which isValidSteamID is true does not
\* throw and returns the identifier constructed from the string itself,
\* which resolveURL leaves as it is.
C8_ValidImpliesGetSteamID ==
  \A s \in DOMAIN calls :
    (calls[s].op = "getSteamID" /\ calls[s].pc = "done"
       /\ isValidSteamID(calls[s].arg)) =>
      /\ calls[s].outcome = ReturnSteamID(NewSteamID(calls[s].arg))
      /\ resolveURL(calls[s].arg) = calls[s].arg

\* C8 witness: getSteamID of the short form "[U:1:22203]".
C8_Witness ==
  \E s \in DOMAIN calls :
    /\ calls[s].op = "getSteamID"
    /\ calls[s].pc = "done"
    /\ calls[s].arg = Steam3B
    /\ calls[s].outcome.kind = "steamid"
    /\ calls[s].outcome.sid.accountid = 22203

\* Whether a SteamID can be made of the target.
Parses(target) == target.tag = "SteamID" \/ ~NewSteamID(target.str).threw

\* The 64-bit form of a target that parses.
SteamID64Of(target) ==
  getSteamID64(IF target.tag = "SteamID" THEN target.sid ELSE NewSteamID(target.str))

\* A decimal number with no leading zero.
IsDecimal64(str) == AllDigits(str) /\ (Len(str) = 1 \/ str[1] # "0")

\* C9: a bulk fetch called with at most 100 targets that all parse has
\* issued one request, whose steamids parameter is the 64-bit forms of the
\* targets, in their order, joined by commas; when some target does not
\* parse the call is done with the constructor's error, has issued no
\* request and returns no array.
C9_TargetsConvertedInOrder ==
  \A s \in BulkCalls :
    Len(calls[s].targets) <= 100 =>
      IF \A i \in 1..Len(calls[s].targets) : Parses(calls[s].targets[i])
        THEN /\ Len(calls[s].sent) = 1
             /\ calls[s].sent[1].param = "steamids"
             /\ calls[s].sent[1].value =
                  Join([i \in 1..Len(calls[s].targets) |->
                          SteamID64Of(calls[s].targets[i])])
             /\ \A i \in 1..Len(calls[s].targets) :
                  IsDecimal64(SteamID64Of(calls[s].targets[i]))
        ELSE /\ calls[s].pc = "done"
             /\ calls[s].outcome = Throw(UnknownFormat)
             /\ calls[s].sent = <<>>
             /\ calls[s].settled = 0

\* C9 witness: GetPlayerSummaries of "STEAM_0:0:11101" and a SteamID object
\* for IdB has asked for "76561197960287930,76561197960287931".
C9_Witness ==
  \E s \in BulkCalls :
    /\ calls[s].op = "GetPlayerSummaries"
    /\ calls[s].targets = <<StringTarget(Steam2A), ObjectTarget(NewSteamID(IdB))>>
    /\ calls[s].pc = "awaiting"
    /\ calls[s].sent[1].value = IdA \o <<",">> \o IdB

\* C10: a getSteamIDAsync call whose candidate is not a valid identifier
\* string has issued exactly one request, the vanity lookup of the
\* normalised candidate; it has no result while that request is pending
\* and is done, with an identifier or an error, once it has settled.
C10_ExactlyOneLookup ==
  \A s \in AsyncCalls :
    ~isValidSteamID(calls[s].arg) =>
      /\ Len(calls[s].sent) = 1
      /\ calls[s].sent[1].endpoint = VanityEndpoint
      /\ calls[s].sent[1].param = "vanityurl"
      /\ calls[s].sent[1].value = resolveURL(calls[s].arg)
      /\ calls[s].sent[1].key \in Keys
      /\ calls[s].pc \in {"awaiting", "done"}
      /\ calls[s].pc = "awaiting" =>
           calls[s].settled = 0 /\ calls[s].outcome = NoOutcome
      /\ calls[s].pc = "done" =>
           calls[s].settled = 1 /\ calls[s].outcome.kind \in {"steamid", "error"}

\* C10 witness: "https://steamcommunity.com/id/coolname/", its one lookup of
\* "coolname" rejected, done with an error.
C10_Witness ==
  \E s \in AsyncCalls :
    /\ calls[s].arg = HttpWord \o <<"s">> \o customRegex \o CoolName \o Slash
    /\ calls[s].pc = "done"
    /\ calls[s].response = Rejected
    /\ calls[s].settled = 1
    /\ Len(calls[s].sent) = 1
    /\ calls[s].sent[1].value = CoolName
    /\ calls[s].outcome.kind = "error"

\* What getSteamIDAsync returns or throws when it is the only call: from the
\* candidate alone when that is a valid identifier, and else from the
\* normalised candidate and the response to its lookup.
OutcomeAlone(candidate, response) ==
  IF ~NewSteamID(candidate).threw THEN ReturnSteamID(NewSteamID(candidate))
  ELSE LET looked == IF LookupSucceeded(response)
                       THEN getSteamID64(NewSteamID(SteamidOf(response)))
                       ELSE resolveURL(candidate)
       IN  IF NewSteamID(looked).threw THEN Throw(UnknownFormat)
           ELSE ReturnSteamID(NewSteamID(looked))

\* Every getSteamIDAsync call in progress holds what it would hold alone:
\* its own normalised candidate, its own request, and once done the outcome
\* of its own candidate and its own response.
EachCallAsAlone ==
  \A s \in AsyncCalls :
    /\ calls[s].pc = "awaiting" =>
         /\ calls[s].norm = resolveURL(calls[s].arg)
         /\ Len(calls[s].sent) = 1
         /\ calls[s].sent[1].value = resolveURL(calls[s].arg)
    /\ calls[s].pc = "done" =>
         calls[s].outcome = OutcomeAlone(calls[s].arg, calls[s].response)

\* A step that changes one call changes no other call and not the key.
StepTouchesOneCall ==
  \A s \in DOMAIN calls :
    calls'[s] # calls[s] =>
      /\ \A t \in DOMAIN calls \ {s} : calls'[t] = calls[t]
      /\ apiKey' = apiKey

\* C11: with several getSteamIDAsync calls in progress and their responses
\* arriving in any order, every call ends with the outcome it would have
\* alone with the same candidate and the same response (the key may change
\* meanwhile), and every step of a call leaves the other calls and the key
\* as they were.
C11_ConcurrentCallsIndependent ==
  []EachCallAsAlone /\ [][StepTouchesOneCall]_vars

\* C11 witness: two calls done, the first having got its response while
\* the second was still awaiting its own; "coolname" ended with the format error
\* and the profile URL with the identifier its lookup answered with.
C11_Witness ==
  \E s, t \in AsyncCalls :
    /\ s # t
    /\ calls[s].pc = "done" /\ calls[s].arg = CoolName
    /\ calls[s].overlapped /\ calls[s].response = Rejected
    /\ calls[s].outcome = Throw(UnknownFormat)
    /\ calls[t].pc = "done"
    /\ calls[t].arg = HttpWord \o <<"s">> \o profilesRegex \o IdA \o Slash
    /\ ~calls[t].overlapped
    /\ SteamidOf(calls[t].response) = IdB
    /\ calls[t].outcome = ReturnSteamID(NewSteamID(IdB))

====
